---- MODULE Spec2Model ----
(***************************************************************************)
(* Model of the BioImage.IO chatbot request pipeline.                      *)
(*                                                                         *)
(*   scripts/start-bioimageio-chatbot.py                                   *)
(*     chat            the RPC facade (channel name -> id, question ctx)   *)
(*     respond_to_user the dispatcher (classify, branch, synthesize)       *)
(*     execute_code    the script sandbox, run on executor worker threads  *)
(*   bioimageio_chatbot/chatbot_extensions/docs_extension.py               *)
(*     run_extension   per-channel retrieval with relevance scores         *)
(*                                                                         *)
(* The event loop runs one coroutine step at a time; execute_code runs on  *)
(* worker threads of the loop's default executor and interleaves with the  *)
(* loop and with other workers statement by statement.  sys.stdout and     *)
(* sys.stderr are process-wide references shared by all of them.           *)
(***************************************************************************)
EXTENDS Integers, Sequences, FiniteSets, TLC

\* ------------------------------------------------------------------ bounds
NumReq == 2        \* concurrent chat requests
MaxWorkers == 2    \* worker threads of the default executor are 1..MaxWorkers
MaxDocs == 4       \* documents in one knowledge base are 1..MaxDocs
ScoreLevels == 3   \* relevance scores are 0..ScoreLevels-1

\* ------------------------------------------------------- program constants
TopK == 3              \* k=3 of the similarity search
NameMaxLen == 32       \* UserProfile.name max_length
OccupationMaxLen == 128
BackgroundMaxLen == 256

None == "None"
R == 1..NumReq

\* MANIFEST['collections'] (manifest.yaml): id, name and the optional base_url.
MANIFEST ==
  << [id |-> "bioimage.io",  name |-> "BioImage.IO",  base_url |-> "https://bioimage.io/docs"],
     [id |-> "scikit-image", name |-> "scikit-image", base_url |-> None] >>

\* channel_ids of load_knowledge_base: the keys of docs_store_dict.
channel_ids == { MANIFEST[i].id : i \in DOMAIN MANIFEST }

\* channel_id_by_name of start_server.
channel_names == { MANIFEST[i].name : i \in DOMAIN MANIFEST }
channel_id_by_name ==
  [ n \in channel_names |-> (CHOOSE i \in DOMAIN MANIFEST : MANIFEST[i].name = n) ]

ChannelId(name) == MANIFEST[channel_id_by_name[name]].id

\* collection_info_dict[channel_id].get("base_url") of run_extension.
BaseUrl(cid) == MANIFEST[CHOOSE i \in DOMAIN MANIFEST : MANIFEST[i].id = cid].base_url

\* Python truthiness of an Optional[str]: None and "" are falsy.
Truthy(x) == x # None /\ x # ""

\* resource_items as load_model_info returned it at startup.
CatalogAtStartup == << "model-1", "dataset-1" >>

\* ------------------------------------------------------------------ inputs
\* The channel argument of chat: omitted, empty, registered, or not registered.
ChannelArgs == {None, ""} \cup channel_names \cup {"no-such-channel"}

\* The user_profile argument of chat: omitted, or the field lengths of a dict.
\* given = FALSE is user_profile=None, the argument's default.
NoProfile == [given |-> FALSE, name |-> 0, occupation |-> 0, background |-> 0]
ValidProfile == [given |-> TRUE, name |-> 4, occupation |-> 14, background |-> 23]
ProfileArgs == {NoProfile, ValidProfile}

\* DirectResponse.response values the classify call may produce, and the
\* FinalResponse.response of a synthesis call.
Answers == {"answer-a", "answer-b"}
FinalAnswers == {"final-answer"}

\* database_id is a free string of the LLM: a configured id or any other.
DatabaseIds == channel_ids \cup {"not-configured"}

\* Scripts the LLM may produce, as the statements they run.
\*   print        print(...) to sys.stdout
\*   raise        raise an Exception with a non-empty message
\*   raise_empty  raise an Exception with an empty message (raise ValueError())
\*   syntax       a script that does not compile (SyntaxError, message non-empty)
\*   exit         sys.exit() / raise SystemExit
\*   rebind       resources = []
\*   mutate       resources.clear()
\*   hang         while True: pass
Scripts ==
  { <<"print">>, <<"print", "raise">>, <<"print", "raise_empty">>, <<"syntax">>,
    <<"exit">>, <<"rebind">>, <<"mutate">>, <<"hang">> }

NoReq == [kind |-> None, response |-> None, database_id |-> None, script |-> << >>]
DirectResponse(a) == [NoReq EXCEPT !.kind = "direct", !.response = a]
DocumentRetrievalInput(db) == [NoReq EXCEPT !.kind = "retrieval", !.database_id = db]
ModelZooInfoScript(s) == [NoReq EXCEPT !.kind = "script", !.script = s]

\* What role.aask(inputs, Union[...]) may return.
Decisions ==
  { DirectResponse(a) : a \in Answers }
    \cup { DocumentRetrievalInput(db) : db \in DatabaseIds }
    \cup { ModelZooInfoScript(s) : s \in Scripts }

\* Output tokens: what script r prints, what the dispatcher itself prints.
Tok(r) == <<"out", r>>
LogTok == <<"log", 0>>
ExcMsg == <<"exc", 0>>        \* str(e) of an exception with a message
AttrErrMsg == <<"exc", 1>>    \* "... object has no attribute 'getvalue'"
NoResult == [stdout |-> << <<"none", 0>> >>, stderr |-> << <<"none", 0>> >>]

VARIABLES
  \* ---- process-wide state
  sys_stdout,      \* 0: the stream installed at startup; r: the StringIO of call r
  sys_stderr,
  bufOut,          \* bufOut[r]: contents of the stdout StringIO created by call r
  resource_items,  \* the shared catalog list
  poolWorkers,     \* max_workers of the default executor
  workQueue,       \* the executor's work queue
  loopRunning,     \* the event loop is running
  \* ---- per request
  pc,              \* where the request's coroutine is
  channel_id,      \* QuestionWithHistory.channel_id
  req,             \* the classify decision
  trace,           \* the external calls the dispatcher made, in order
  selected,        \* selected_channel of the retrieval branch
  response,        \* what chat returned
  error,           \* the exception that ended the request
  \* ---- per execute_code call (one per script request)
  epc,             \* the statement the worker thread is at
  ip,              \* the script statement exec is at
  context,         \* the caller's bindings: what "resources" is bound to
  local_vars,      \* the sandbox's copy: what "resources" is bound to
  original_stdout,
  original_stderr,
  stdout_output,
  result,          \* the value of the return statement
  \* ---- run_extension (docs_extension.py)
  docs_store,      \* docs_store_dict: per channel, the relevance score of each document
  xpc, xchannel, xdocs

mainVars ==
  << sys_stdout, sys_stderr, bufOut, resource_items, poolWorkers, workQueue, loopRunning,
     pc, channel_id, req, trace, selected, response, error,
     epc, ip, context, local_vars, original_stdout, original_stderr, stdout_output, result >>
docsVars == << docs_store, xpc, xchannel, xdocs >>
vars == << mainVars, docsVars >>

\* ------------------------------------------------------------------- Init
InitMain ==
  /\ sys_stdout = 0
  /\ sys_stderr = 0
  /\ bufOut = [r \in R |-> << >>]
  /\ resource_items = CatalogAtStartup
  /\ poolWorkers \in 1..MaxWorkers
  /\ workQueue = << >>
  /\ loopRunning = TRUE
  /\ pc = [r \in R |-> "idle"]
  /\ channel_id = [r \in R |-> None]
  /\ req = [r \in R |-> NoReq]
  /\ trace = [r \in R |-> << >>]
  /\ selected = [r \in R |-> None]
  /\ response = [r \in R |-> None]
  /\ error = [r \in R |-> None]
  /\ epc = [r \in R |-> "none"]
  /\ ip = [r \in R |-> 1]
  /\ context = [r \in R |-> None]
  /\ local_vars = [r \in R |-> None]
  /\ original_stdout = [r \in R |-> 0]
  /\ original_stderr = [r \in R |-> 0]
  /\ stdout_output = [r \in R |-> << >>]
  /\ result = [r \in R |-> NoResult]

\* A store of three documents per channel, for the specification that does not
\* look into the stores.
DefaultStore == [c \in channel_ids |-> <<2, 1, 0>>]

InitDocsIdle ==
  /\ docs_store = DefaultStore
  /\ xpc = "idle"
  /\ xchannel = None
  /\ xdocs = << >>

Init == InitMain /\ InitDocsIdle

\* ---------------------------------------------------------------- streams
\* print(...) on any thread: a write to whatever sys.stdout refers to now.  Writes
\* to the stream installed at startup leave the model (they reach the console).
Write(stream, tok) ==
  IF stream = 0 THEN bufOut
  ELSE [bufOut EXCEPT ![stream] = Append(@, tok)]

\* ------------------------------------------------------------------- chat
\* UserProfile.parse_obj(user_profile): a non-dict raises ValidationError, and so
\* does a field longer than its max_length.
ParseUserProfile(p) ==
  /\ p.given
  /\ p.name <= NameMaxLen
  /\ p.occupation <= OccupationMaxLen
  /\ p.background <= BackgroundMaxLen

Fail(r, e) ==
  /\ pc' = [pc EXCEPT ![r] = "failed"]
  /\ error' = [error EXCEPT ![r] = e]

chat(r, user_profile, channel) ==
  /\ loopRunning
  /\ pc[r] = "idle"
  /\ IF Truthy(channel) /\ channel \notin channel_names
       THEN /\ Fail(r, "AssertionError")
            /\ UNCHANGED channel_id
       ELSE IF ~ParseUserProfile(user_profile)
         THEN /\ Fail(r, "ValidationError")
              /\ UNCHANGED channel_id
         ELSE /\ pc' = [pc EXCEPT ![r] = "classify"]
              /\ channel_id' = [channel_id EXCEPT ![r] =
                                  IF Truthy(channel) THEN ChannelId(channel) ELSE None]
              /\ UNCHANGED error
  /\ UNCHANGED << sys_stdout, sys_stderr, bufOut, resource_items, poolWorkers, workQueue,
                  loopRunning, req, trace, selected, response,
                  epc, ip, context, local_vars, original_stdout, original_stderr,
                  stdout_output, result, docsVars >>

\* The tail of chat once customer_service.handle returned: print, return.
Return(r, a) ==
  /\ response' = [response EXCEPT ![r] = a]
  /\ pc' = [pc EXCEPT ![r] = "done"]
  /\ bufOut' = Write(sys_stdout, LogTok)

\* -------------------------------------------------------- respond_to_user
\* Faulty variant: the LLM-chosen database wins over the caller's channel.
selected_channel_db_first(cid, database_id) ==
  IF Truthy(database_id) THEN database_id ELSE cid

\* selected_channel = question_with_history.channel_id or req.database_id
selected_channel(cid, database_id) ==
  IF Truthy(cid) THEN cid ELSE database_id

\* Faulty variant: the direct answer is replaced by a synthesized one.
DirectAnswerSynthesized(d) == CHOOSE a \in FinalAnswers : TRUE

\* return req.response
DirectAnswer(d) == d.response

\* role.aask(inputs, Union[...]) returned d; the coroutine runs to its next await.
Classify(r, d) ==
  /\ loopRunning
  /\ pc[r] = "classify"
  /\ req' = [req EXCEPT ![r] = d]
  /\ CASE d.kind = "direct" ->
            /\ trace' = [trace EXCEPT ![r] = Append(@, "classify")]
            /\ Return(r, DirectAnswer(d))
            /\ UNCHANGED << selected, error, workQueue, context >>
       [] d.kind = "retrieval" ->
            LET sel == selected_channel(channel_id[r], d.database_id) IN
            /\ selected' = [selected EXCEPT ![r] = sel]
            /\ IF sel \in DOMAIN docs_store
                 THEN /\ trace' = [trace EXCEPT ![r] = @ \o <<"classify", "lookup", "search">>]
                      /\ pc' = [pc EXCEPT ![r] = "search"]
                      /\ UNCHANGED error
                 ELSE /\ trace' = [trace EXCEPT ![r] = @ \o <<"classify", "lookup">>]
                      /\ Fail(r, "KeyError")
            /\ UNCHANGED << response, bufOut, workQueue, context >>
       [] d.kind = "script" ->
            /\ trace' = [trace EXCEPT ![r] = @ \o <<"classify", "exec">>]
            /\ bufOut' = Write(sys_stdout, LogTok)
            /\ context' = [context EXCEPT ![r] = "catalog"]
            /\ workQueue' = Append(workQueue, r)
            /\ pc' = [pc EXCEPT ![r] = "executor"]
            /\ UNCHANGED << selected, response, error >>
  /\ UNCHANGED << sys_stdout, sys_stderr, resource_items, poolWorkers, loopRunning,
                  channel_id, epc, ip, local_vars, original_stdout, original_stderr,
                  stdout_output, result, docsVars >>

\* docs_store.asimilarity_search returned; the synthesis call is made.
SearchReturn(r) ==
  /\ loopRunning
  /\ pc[r] = "search"
  /\ trace' = [trace EXCEPT ![r] = Append(@, "synth")]
  /\ pc' = [pc EXCEPT ![r] = "synth"]
  /\ UNCHANGED << sys_stdout, sys_stderr, bufOut, resource_items, poolWorkers, workQueue,
                  loopRunning, channel_id, req, selected, response, error,
                  epc, ip, context, local_vars, original_stdout, original_stderr,
                  stdout_output, result, docsVars >>

\* The future of run_in_executor is done and the loop resumes the coroutine: with
\* the result (print, then the synthesis call), or with the exception the call
\* raised.  SystemExit raised in a task leaves run_forever.
ExecResume(r) ==
  /\ loopRunning
  /\ pc[r] = "executor"
  /\ epc[r] \in {"returned", "raised"}
  /\ IF epc[r] = "returned"
       THEN /\ bufOut' = Write(sys_stdout, LogTok)
            /\ trace' = [trace EXCEPT ![r] = Append(@, "synth")]
            /\ pc' = [pc EXCEPT ![r] = "synth"]
            /\ UNCHANGED << error, loopRunning >>
       ELSE /\ Fail(r, "SystemExit")
            /\ loopRunning' = FALSE
            /\ UNCHANGED << bufOut, trace >>
  /\ UNCHANGED << sys_stdout, sys_stderr, resource_items, poolWorkers, workQueue,
                  channel_id, req, selected, response,
                  epc, ip, context, local_vars, original_stdout, original_stderr,
                  stdout_output, result, docsVars >>

\* role.aask(..., FinalResponse) returned a; respond_to_user returns response.response.
SynthReturn(r, a) ==
  /\ loopRunning
  /\ pc[r] = "synth"
  /\ Return(r, a)
  /\ UNCHANGED << sys_stdout, sys_stderr, resource_items, poolWorkers, workQueue,
                  loopRunning, channel_id, req, trace, selected, error,
                  epc, ip, context, local_vars, original_stdout, original_stderr,
                  stdout_output, result, docsVars >>

\* ----------------------------------------------------------- execute_code
\* The statements of execute_code a worker thread is inside of.
Running == {"l33", "l34", "l35", "l36", "l40", "l43", "l46", "l47", "l62", "l63"}
Busy == Cardinality({r \in R : epc[r] \in Running})

\* A worker thread of the default executor (run_in_executor(None, ...)) takes the
\* next work item.  The pool is finite: min(32, cpu_count + 4) threads in CPython;
\* the model scales it to poolWorkers in 1..MaxWorkers, keeping that it can be
\* smaller than the number of concurrent script requests.
WorkerStart(r) ==
  /\ workQueue # << >>
  /\ r = Head(workQueue)
  /\ Busy < poolWorkers
  /\ workQueue' = Tail(workQueue)
  /\ epc' = [epc EXCEPT ![r] = "l33"]
  /\ UNCHANGED << sys_stdout, sys_stderr, bufOut, resource_items, poolWorkers, loopRunning,
                  pc, channel_id, req, trace, selected, response, error,
                  ip, context, local_vars, original_stdout, original_stderr,
                  stdout_output, result, docsVars >>

Goto(r, l) == epc' = [epc EXCEPT ![r] = l]

\* except Exception as e: return {"stdout": "", "stderr": str(e)}
ExceptResult(msg) == [stdout |-> << >>, stderr |-> msg]

\* original_stdout = sys.stdout; original_stderr = sys.stderr
SaveStreams(r) ==
  \/ /\ epc[r] = "l33"
     /\ original_stdout' = [original_stdout EXCEPT ![r] = sys_stdout]
     /\ Goto(r, "l34")
     /\ UNCHANGED original_stderr
  \/ /\ epc[r] = "l34"
     /\ original_stderr' = [original_stderr EXCEPT ![r] = sys_stderr]
     /\ Goto(r, "l35")
     /\ UNCHANGED original_stdout

\* sys.stdout = io.StringIO(); sys.stderr = io.StringIO()
RedirectStreams(r) ==
  \/ /\ epc[r] = "l35"
     /\ sys_stdout' = r
     /\ Goto(r, "l36")
     /\ UNCHANGED sys_stderr
  \/ /\ epc[r] = "l36"
     /\ sys_stderr' = r
     /\ Goto(r, "l40")
     /\ UNCHANGED sys_stdout

\* local_vars = context.copy(): a new dict holding the same objects.
CopyContext(r) ==
  /\ epc[r] = "l40"
  /\ local_vars' = [local_vars EXCEPT ![r] = context[r]]
  /\ ip' = [ip EXCEPT ![r] = 1]
  /\ Goto(r, "l43")

\* exec(script, local_vars), one statement of the script at a time.  A script that
\* hangs takes no further step.
ExecStatement(r) ==
  /\ epc[r] = "l43"
  /\ LET script == req[r].script
         op == IF ip[r] <= Len(script) THEN script[ip[r]] ELSE "end"
         next == ip' = [ip EXCEPT ![r] = @ + 1]
     IN
     /\ op # "hang"
     /\ CASE op = "end" ->
               /\ Goto(r, "l46")
               /\ UNCHANGED << ip, bufOut, local_vars, resource_items, result >>
          [] op = "print" ->
               /\ bufOut' = Write(sys_stdout, Tok(r))
               /\ next
               /\ UNCHANGED << epc, local_vars, resource_items, result >>
          [] op = "rebind" ->
               /\ local_vars' = [local_vars EXCEPT ![r] = "fresh"]
               /\ next
               /\ UNCHANGED << epc, bufOut, resource_items, result >>
          [] op = "mutate" ->
               /\ resource_items' =
                    IF local_vars[r] = "catalog" THEN << >> ELSE resource_items
               /\ next
               /\ UNCHANGED << epc, bufOut, local_vars, result >>
          [] op \in {"raise", "syntax"} ->
               /\ result' = [result EXCEPT ![r] = ExceptResult(<<ExcMsg>>)]
               /\ Goto(r, "l62")
               /\ UNCHANGED << ip, bufOut, local_vars, resource_items >>
          [] op = "raise_empty" ->
               /\ result' = [result EXCEPT ![r] = ExceptResult(<< >>)]
               /\ Goto(r, "l62")
               /\ UNCHANGED << ip, bufOut, local_vars, resource_items >>
          [] op = "exit" ->
               \* SystemExit is no Exception: only the finally clause runs
               /\ Goto(r, "l62")
               /\ UNCHANGED << ip, bufOut, local_vars, resource_items, result >>

\* stdout_output = sys.stdout.getvalue(); stderr_output = sys.stderr.getvalue();
\* return {...}.  The stream installed at startup has no getvalue: AttributeError,
\* caught by the except clause.  Nothing modelled writes to sys.stderr, so a
\* capture buffer of stderr is empty.
CaptureStreams(r) ==
  \/ /\ epc[r] = "l46"
     /\ IF sys_stdout = 0
          THEN /\ result' = [result EXCEPT ![r] = ExceptResult(<<AttrErrMsg>>)]
               /\ Goto(r, "l62")
               /\ UNCHANGED stdout_output
          ELSE /\ stdout_output' = [stdout_output EXCEPT ![r] = bufOut[sys_stdout]]
               /\ Goto(r, "l47")
               /\ UNCHANGED result
  \/ /\ epc[r] = "l47"
     /\ IF sys_stderr = 0
          THEN result' = [result EXCEPT ![r] = ExceptResult(<<AttrErrMsg>>)]
          ELSE result' = [result EXCEPT ![r] = [stdout |-> stdout_output[r], stderr |-> << >>]]
     /\ Goto(r, "l62")
     /\ UNCHANGED stdout_output

\* finally: sys.stdout = original_stdout; sys.stderr = original_stderr
RestoreStreams(r) ==
  /\ epc[r] = "l62"
  /\ sys_stdout' = original_stdout[r]
  /\ Goto(r, "l63")
  /\ UNCHANGED << sys_stderr, ip, local_vars, original_stdout, original_stderr,
                  stdout_output >>

\* The last statement of the finally clause, after which the call returns its
\* result, or raises what no except clause caught; its locals are gone.
RestoreAndLeave(r) ==
  /\ epc[r] = "l63"
  /\ sys_stderr' = original_stderr[r]
  /\ Goto(r, IF result[r] = NoResult THEN "raised" ELSE "returned")
  /\ ip' = [ip EXCEPT ![r] = 1]
  /\ local_vars' = [local_vars EXCEPT ![r] = None]
  /\ original_stdout' = [original_stdout EXCEPT ![r] = 0]
  /\ original_stderr' = [original_stderr EXCEPT ![r] = 0]
  /\ stdout_output' = [stdout_output EXCEPT ![r] = << >>]
  /\ UNCHANGED sys_stdout

execute_code(r) ==
  \/ /\ SaveStreams(r)
     /\ UNCHANGED << sys_stdout, sys_stderr, bufOut, resource_items, ip, local_vars,
                     stdout_output, result >>
  \/ /\ RedirectStreams(r)
     /\ UNCHANGED << bufOut, resource_items, ip, local_vars, original_stdout,
                     original_stderr, stdout_output, result >>
  \/ /\ CopyContext(r)
     /\ UNCHANGED << sys_stdout, sys_stderr, bufOut, resource_items, original_stdout,
                     original_stderr, stdout_output, result >>
  \/ /\ ExecStatement(r)
     /\ UNCHANGED << sys_stdout, sys_stderr, original_stdout, original_stderr,
                     stdout_output >>
  \/ /\ CaptureStreams(r)
     /\ UNCHANGED << sys_stdout, sys_stderr, bufOut, resource_items, ip, local_vars,
                     original_stdout, original_stderr >>
  \/ /\ RestoreStreams(r)
     /\ UNCHANGED << bufOut, resource_items, result >>
  \/ /\ RestoreAndLeave(r)
     /\ UNCHANGED << bufOut, resource_items, result >>

ExecuteCode(r) ==
  /\ execute_code(r)
  /\ UNCHANGED << poolWorkers, workQueue, loopRunning, pc, channel_id, req, trace,
                  selected, response, error, context, docsVars >>

\* ------------------------------------------------------------------- Next
Next ==
  \/ \E r \in R, p \in ProfileArgs, c \in ChannelArgs : chat(r, p, c)
  \/ \E r \in R, d \in Decisions : Classify(r, d)
  \/ \E r \in R : SearchReturn(r)
  \/ \E r \in R : WorkerStart(r)
  \/ \E r \in R : ExecuteCode(r)
  \/ \E r \in R : ExecResume(r)
  \/ \E r \in R, a \in FinalAnswers : SynthReturn(r, a)

Spec == Init /\ [][Next]_vars

\* ---------------------------------------------------------- run_extension
\* Every knowledge base load_knowledge_base let through: it asserts length > 0.
\* A store is the relevance score of each of its documents to the query.
Stores ==
  [channel_ids -> UNION { [1..n -> 0..(ScoreLevels - 1)] : n \in 1..MaxDocs }]

InitDocs ==
  /\ InitMain
  /\ docs_store \in Stores
  /\ xpc = "idle"
  /\ xchannel = None
  /\ xdocs = << >>

\* The most relevant document of S (the earliest of equally relevant ones).
Best(S, score) ==
  CHOOSE d \in S : \A e \in S : score[d] > score[e] \/ (score[d] = score[e] /\ d <= e)

RECURSIVE Search(_, _, _)
Search(S, score, k) ==
  IF k = 0 \/ S = {} THEN << >>
  ELSE LET d == Best(S, score)
       IN << [doc |-> d, score |-> score[d]] >> \o Search(S \ {d}, score, k - 1)

\* docs_store.asimilarity_search_with_relevance_scores(req.query, k=3): the k most
\* relevant documents of the store, most relevant first; fewer when it holds fewer.
asimilarity_search_with_relevance_scores(store, k) == Search(DOMAIN store, store, k)

\* DocWithScore(doc=..., score=..., metadata=..., base_url=base_url)
DocWithScore(hit, base_url) == [doc |-> hit.doc, score |-> hit.score, base_url |-> base_url]

\* The extension of channel c is called: docs_store_dict[channel_id], the manifest
\* entry, then the awaited search.
ExtensionCall(c) ==
  /\ xpc = "idle"
  /\ c \in DOMAIN docs_store
  /\ xchannel' = c
  /\ xpc' = "search"
  /\ UNCHANGED << docs_store, xdocs, mainVars >>

\* The search returned: build docs_with_score, print its first three entries,
\* return it.  docs_with_score[1] and [2] raise IndexError on a shorter list.
ExtensionSearchReturn ==
  /\ xpc = "search"
  /\ LET results_with_scores ==
           asimilarity_search_with_relevance_scores(docs_store[xchannel], TopK)
         docs_with_score ==
           [i \in 1..Len(results_with_scores) |->
              DocWithScore(results_with_scores[i], BaseUrl(xchannel))]
     IN IF Len(docs_with_score) < 3
          THEN /\ xpc' = "IndexError"
               /\ UNCHANGED xdocs
          ELSE /\ xpc' = "returned"
               /\ xdocs' = docs_with_score
  /\ UNCHANGED << docs_store, xchannel, mainVars >>

run_extension ==
  \/ \E c \in channel_ids : ExtensionCall(c)
  \/ ExtensionSearchReturn

SpecDocs == InitDocs /\ [][run_extension]_vars

\* ================================================================= claims
Range(f) == { f[i] : i \in DOMAIN f }
IsPrefix(s, t) == Len(s) <= Len(t) /\ \A i \in 1..Len(s) : s[i] = t[i]

\* The knowledge base the similarity search of request r ran against.
SearchedOn(r) == IF "search" \in Range(trace[r]) THEN selected[r] ELSE None

\* C1: a retrieval request whose channel_id is set searches the knowledge base of
\* channel_id (and does search: no lookup of database_id fails it), whatever
\* database_id is; the LLM-chosen database_id is used only when channel_id is absent.
C1_ChannelPriority ==
  \A r \in R :
    req[r].kind = "retrieval" =>
      /\ channel_id[r] # None =>
           /\ SearchedOn(r) = channel_id[r]
           /\ selected[r] = channel_id[r]
           /\ error[r] = None
      /\ SearchedOn(r) = req[r].database_id /\ req[r].database_id # channel_id[r]
           => channel_id[r] = None
      /\ channel_id[r] = None => selected[r] = req[r].database_id

C1_Witness ==
  \E r \in R :
    /\ req[r].kind = "retrieval"
    /\ channel_id[r] # None
    /\ req[r].database_id \notin channel_ids
    /\ SearchedOn(r) = channel_id[r]
    /\ pc[r] = "done"

\* C2: one pass, one branch.  A direct answer ends the request with the classify
\* response unmodified and no other call; a retrieval or script request that
\* returns made exactly one synthesis call, after its search / script execution;
\* at every moment the calls made so far are a prefix of the branch's sequence.
BranchCalls(kind) ==
  CASE kind = "direct" -> <<"classify">>
    [] kind = "retrieval" -> <<"classify", "lookup", "search", "synth">>
    [] kind = "script" -> <<"classify", "exec", "synth">>
    [] OTHER -> << >>

C2_SinglePass ==
  \A r \in R :
    /\ IsPrefix(trace[r], BranchCalls(req[r].kind))
    /\ pc[r] = "done" => trace[r] = BranchCalls(req[r].kind)
    /\ pc[r] = "done" /\ req[r].kind = "direct" => response[r] = req[r].response
    /\ pc[r] = "done" /\ req[r].kind # "direct" => response[r] \in FinalAnswers
    /\ "synth" \in Range(trace[r]) /\ req[r].kind = "script" => epc[r] = "returned"

C2_Witness ==
  \E r, q \in R :
    /\ pc[r] = "done" /\ req[r].kind = "direct" /\ trace[r] = <<"classify">>
    /\ pc[q] = "done" /\ req[q].kind = "script"

\* C3: no script run changes the caller's bindings or the shared catalog.
C3_CallerDataUnchanged ==
  /\ resource_items = CatalogAtStartup
  /\ \A r \in R : context[r] \in {None, "catalog"}

\* What execute_code returns for script s of request r when no other thread runs:
\* the statements of s against a capture buffer of its own.
RECURSIVE RunAlone(_, _, _, _)
RunAlone(s, r, i, out) ==
  IF i > Len(s) THEN [stdout |-> out, stderr |-> << >>]
  ELSE CASE s[i] = "print" -> RunAlone(s, r, i + 1, Append(out, Tok(r)))
         [] s[i] \in {"raise", "syntax"} -> ExceptResult(<<ExcMsg>>)
         [] s[i] = "raise_empty" -> ExceptResult(<< >>)
         [] s[i] \in {"rebind", "mutate"} -> RunAlone(s, r, i + 1, out)
         [] OTHER -> NoResult

\* The scripts' own output in a captured stream (the dispatcher's log lines left out).
IsScriptOutput(tok) == tok[1] = "out"
ScriptOutput(stream) == SelectSeq(stream, IsScriptOutput)

\* C4: concurrent requests are independent: every result execute_code returns
\* holds exactly the output of its own script, none of another script's and none
\* missing: the result the same script gives when its request runs alone.
C4_ResultsIndependent ==
  \A r \in R :
    epc[r] = "returned" =>
      LET alone == RunAlone(req[r].script, r, 1, << >>) IN
      /\ ScriptOutput(result[r].stdout) = alone.stdout
      /\ result[r].stderr = alone.stderr

\* C5: whatever the script's fault, execute_code returns a result and never
\* raises to its caller, so no request ends on the script's exception.
C5_ScriptFaultNeverFatal ==
  \A r \in R : epc[r] # "raised" /\ error[r] # "SystemExit" /\ loopRunning

\* The output a script printed before its first fault.
RECURSIVE PrintedBeforeFault(_, _, _)
PrintedBeforeFault(s, r, i) ==
  IF i > Len(s) \/ s[i] \in {"raise", "raise_empty", "syntax", "exit", "hang"} THEN << >>
  ELSE (IF s[i] = "print" THEN <<Tok(r)>> ELSE << >>) \o PrintedBeforeFault(s, r, i + 1)

Throws(s) == \E i \in DOMAIN s : s[i] \in {"raise", "raise_empty", "syntax"}

\* C6: the result is faithful: a script that throws gives non-empty stderr and
\* the stdout it produced before the fault; a script that prints and completes
\* gives exactly its output in stdout and empty stderr.
C6_FaithfulResult ==
  \A r \in R :
    epc[r] = "returned" =>
      LET s == req[r].script IN
      /\ Throws(s) =>
           /\ result[r].stderr # << >>
           /\ result[r].stdout = PrintedBeforeFault(s, r, 1)
      /\ s = <<"print">> =>
           /\ result[r].stdout = <<Tok(r)>>
           /\ result[r].stderr = << >>

\* C7: scripts that never return do not block other requests.  A request whose
\* script waits in the executor's queue can still be served: a worker thread is
\* idle, or one is running a script that returns.
Hangs(s) == "hang" \in Range(s)

C7_HangingScriptsBlockNobody ==
  \A r \in R :
    pc[r] = "executor" /\ epc[r] = "none" =>
      \/ Busy < poolWorkers
      \/ \E q \in R : epc[q] \in Running /\ ~Hangs(req[q].script)

\* The scheduling the code relies on: the event loop resumes every coroutine whose
\* awaited call is done (the LLM and search calls return), and every worker thread
\* keeps running.  Nothing is assumed of callers: chat may never be called.
Fairness ==
  /\ \A r \in R : WF_vars(\E d \in Decisions : Classify(r, d))
  /\ \A r \in R : WF_vars(SearchReturn(r))
  /\ \A r \in R : WF_vars(WorkerStart(r))
  /\ \A r \in R : WF_vars(ExecuteCode(r))
  /\ \A r \in R : WF_vars(ExecResume(r))
  /\ \A r \in R : WF_vars(\E a \in FinalAnswers : SynthReturn(r, a))

FairSpec == Spec /\ Fairness

\* C7 as a liveness property of FairSpec: a script request whose own script
\* returns eventually receives its response (violated like the invariant above).
C7_ScriptRequestsAnswered ==
  \A r \in R :
    (pc[r] = "executor" /\ ~Hangs(req[r].script) /\ "exit" \notin Range(req[r].script))
      ~> (pc[r] = "done")

\* C8: chat fails at the facade (before any classify call) exactly when the
\* channel name is not registered; a call without user_profile or without channel
\* proceeds to classify.
FailedAtFacade(r) == pc[r] = "failed" /\ trace[r] = << >>

C8_FacadeFailsOnlyOnUnknownChannel ==
  \A r \in R :
    /\ FailedAtFacade(r) => error[r] = "AssertionError"
    /\ error[r] = "AssertionError" => FailedAtFacade(r)
    /\ channel_id[r] \in channel_ids \cup {None}

\* C9: for every configured channel with a non-empty knowledge base, the search
\* with k=3 completes and returns at most 3 documents (all of them when the store
\* holds fewer), by non-increasing score, each with the collection's base_url.
C9_RetrievalCompletes ==
  /\ xpc \notin {"IndexError"}
  /\ xpc = "returned" =>
       /\ Len(xdocs) <= TopK
       /\ Len(xdocs) = (IF Len(docs_store[xchannel]) < TopK
                          THEN Len(docs_store[xchannel]) ELSE TopK)
       /\ \A i \in 1..(Len(xdocs) - 1) : xdocs[i].score >= xdocs[i + 1].score
       /\ \A i \in 1..Len(xdocs) : xdocs[i].base_url = BaseUrl(xchannel)

\* C10: once every started execute_code call has returned (or raised), sys.stdout
\* and sys.stderr are the streams installed before the first call.
C10_StreamsRestored ==
  (\A r \in R : epc[r] \in {"none", "returned", "raised"})
    => sys_stdout = 0 /\ sys_stderr = 0

====
